---- MODULE Spec2Model ----
(***************************************************************************)
(* BaddieBot: the bet-sizing functions of strategic_math.py and the        *)
(* advisor steps of the two runners (main.py, mainv2.py).                  *)
(*                                                                         *)
(* Numbers.  The Python code computes in IEEE doubles.  Here a probability *)
(* is an integer number of hundredths (0.75 is 75), a price is an integer  *)
(* number of cents, and money is an integer number of cents (the code's    *)
(* dollars times 100).  Quotients are kept as exact fractions num/den and  *)
(* compared by cross-multiplication.  Where the doubles decide differently *)
(* from exact arithmetic on the inputs drawn below (a comparison at the    *)
(* exact 5-point boundary, a floor of an exact integer quotient) the       *)
(* double's outcome is tabulated: GateFloatPass, EdgeFloatPassUp,          *)
(* EdgeFloatPassDown, FloatFloorShort.                                     *)
(***************************************************************************)
EXTENDS Integers, Sequences, FiniteSets, TLC

VARIABLES
    entry,               \* which entry point this run exercises
    \* ---- calculate_kelly_bet, called once or over a sequence
    bankroll,            \* cents
    budget_cents,        \* the budget the sequence started with
    budget_remaining,    \* the caller's running accumulator
    spent,               \* running sum of the returned spends
    pos,                 \* opportunities sized so far
    kelly_args,          \* arguments of the last call
    kelly_ret,           \* what the last call returned
    \* ---- get_advisor_recommendations
    research_results,    \* the list passed in (its records are mutated)
    total_daily_budget,
    advisor_ret,         \* what the call returned
    \* ---- run_advisor_bot (main.py and mainv2.py)
    run_pc,              \* where the runner is
    run_exit,            \* the path on which it returned
    market_data,         \* the scout's groups, in the dict's iteration order
    cat_idx,             \* the group the research loop is at
    bot_context,         \* budget, raw_picks, final_orders
    \* ---- get_advisor_recommendations, two calls running at once
    calls,               \* each caller's frame: its position and locals
    \* ---- research_event_group (research_strat.py)
    category,            \* the category passed in
    market_list,         \* the markets passed in
    context_text,        \* the markets written into the prompt
    research_ret,        \* what the call returned
    \* ---- the scouts (current_markets.py)
    scout_pc,            \* where the scout is
    target_categories,   \* fetch_current_kalshi_markets: the names asked for
    max_per_category,
    max_markets,         \* get_daily_markets
    cursor,              \* the cursor of the last response read
    has_more_pages,
    page_count,
    response,            \* the answer to the last request
    categorized_markets, \* the dict's keys, in insertion order, and lists
    daily_candidates,
    scout_ret            \* what the scout returned

vars == << entry, bankroll, budget_cents, budget_remaining, spent, pos,
           kelly_args, kelly_ret, research_results, total_daily_budget,
           advisor_ret, run_pc, run_exit, market_data, cat_idx, bot_context,
           calls, category, market_list, context_text, research_ret,
           scout_pc, target_categories, max_per_category, max_markets, cursor,
           has_more_pages, page_count, response, categorized_markets,
           daily_candidates, scout_ret >>

kellyVars == << bankroll, budget_cents, budget_remaining, spent, pos,
                kelly_args, kelly_ret >>
propVars == << research_results, total_daily_budget, advisor_ret >>
runVars == << run_pc, run_exit, market_data, cat_idx, bot_context >>
concVars == << calls >>
researchVars == << category, market_list, context_text, research_ret >>
scoutVars == << scout_pc, target_categories, max_per_category, max_markets,
                cursor, has_more_pages, page_count, response,
                categorized_markets, daily_candidates, scout_ret >>

(***************************************************************************)
(* Bounds of the model.                                                    *)
(***************************************************************************)
MaxSeq == 3        \* opportunities in one sequential run
MaxBatch == 3      \* research results in one batch
MaxEvents == 1     \* events (markets) the scout returns in one group
MaxPicks == 1      \* picks the researcher returns for one group
MaxMarkets == 3    \* markets passed to one call of research_event_group
MaxPages == 2      \* pages with events the server sends to one scout
MaxPageEvents == 2 \* events on one page

(***************************************************************************)
(* Program constants.                                                      *)
(***************************************************************************)
MinEdge == 5             \* 0.05, in hundredths
KellyFractionInv == 4    \* kelly_fraction = 0.25 = 1/4
MinTicketCents == 100    \* 1.00 dollars
NoEdgeScore == -1        \* a record that has no 'edge_score' key
MIN_VOLUME == 500        \* main.py: liquidity threshold
DayHours == 24           \* current_markets.py: timedelta(hours=24)

(***************************************************************************)
(* Arithmetic helpers.                                                     *)
(***************************************************************************)
Abs(x) == IF x < 0 THEN -x ELSE x

\* math.floor(a / b) for b # 0
FloorDiv(a, b) == IF b > 0 THEN a \div b ELSE (-a) \div (-b)

\* the integer nearest to n/d (d > 0).  When n/d lies exactly half way the
\* double that the code formats lies a rounding error to one side of it, on
\* which side depends on the operands' representation errors: `up` says which
RoundNearest(n, d, up) ==
    LET q == n \div d
        r == n - q * d
    IN  IF 2 * r < d THEN q
        ELSE IF 2 * r > d THEN q + 1
        ELSE IF up THEN q + 1 ELSE q

\* n/d lies exactly half way between two integers
HalfWay(n, d) == 2 * (n - (n \div d) * d) = d

RECURSIVE SumSeq(_)
SumSeq(s) == IF s = << >> THEN 0 ELSE Head(s) + SumSeq(Tail(s))

(***************************************************************************)
(* Where the doubles differ from exact arithmetic.                         *)
(***************************************************************************)
\* prices p (1..99) at which p/100.0 + 0.05 is a double below (p+5)/100.0,
\* so that an estimate of exactly price + 5 points passes the Kelly gate
GateFloatPass == {12, 18, 29, 35, 41}

\* prices p at which abs((p+5)/100.0 - p/100.0) > 0.05 as doubles
EdgeFloatPassUp ==
    {9, 12, 15, 18, 21, 22, 23, 29, 35, 41, 47, 48, 49, 50, 51, 57, 58, 59,
     60, 61, 62, 63, 69, 70, 71, 72, 73, 74, 75, 76, 82, 83, 84, 85, 86, 87,
     88, 94, 95}

\* prices p at which abs((p-5)/100.0 - p/100.0) > 0.05 as doubles
EdgeFloatPassDown ==
    {14, 17, 20, 23, 26, 27, 28, 34, 40, 46, 52, 53, 54, 55, 56, 62, 63, 64,
     65, 66, 67, 68, 74, 75, 76, 77, 78, 79, 80, 81, 87, 88, 89, 90, 91, 92,
     93, 99}

\* << bet in cents, price >> with bet a whole multiple of price where the
\* double quotient (bet/100.0) / (price/100.0) falls just below the integer
\* (1.15 / 0.05 is 22.999999999999996); the pairs the runs below can meet
FloatFloorShort ==
    { <<115, 1>>, <<115, 5>>, <<140, 5>>, <<6580, 5>>, <<13160, 5>> }

(***************************************************************************)
(* calculate_kelly_bet (strategic_math.py).  Arguments: the estimate in    *)
(* hundredths, the price in cents, bankroll and remaining limit in cents.  *)
(* raw_bet_amount is the fraction RawNum / RawDen of a cent.               *)
(***************************************************************************)
KellyRet(k, c, s) == [kind |-> k, count |-> c, spend |-> s]

\* line 19: ai_probability <= market_prob + 0.05
NoEdge(ai_probability, market_price_cents) ==
    \/ ai_probability < market_price_cents + MinEdge
    \/ /\ ai_probability = market_price_cents + MinEdge
       /\ market_price_cents \notin GateFloatPass

\* lines 24-30: bankroll * ((p - price) / (1 - price)) * 0.25
RawNum(ai_probability, market_price_cents, bank) ==
    bank * (ai_probability - market_price_cents)

\* mutant of line 24: the division by 1 - market_prob left out
RawDen_NoOdds(market_price_cents) == KellyFractionInv * 100

RawDen(market_price_cents) == KellyFractionInv * (100 - market_price_cents)

\* mutants of line 34: the clamp left out; max in place of min
BetNum_NoClamp(ai_probability, market_price_cents, bank, daily_limit_remaining) ==
    RawNum(ai_probability, market_price_cents, bank)

BetNum_Max(ai_probability, market_price_cents, bank, daily_limit_remaining) ==
    LET n == RawNum(ai_probability, market_price_cents, bank)
        l == daily_limit_remaining * RawDen(market_price_cents)
    IN  IF n < l THEN l ELSE n

\* line 34: min(raw_bet_amount, daily_limit_remaining), as a numerator over
\* RawDen (which is positive for every price below 100)
BetNum(ai_probability, market_price_cents, bank, daily_limit_remaining) ==
    LET n == RawNum(ai_probability, market_price_cents, bank)
        l == daily_limit_remaining * RawDen(market_price_cents)
    IN  IF n < l THEN n ELSE l

\* mutant of line 37: a minimum of one cent
BelowTicket_Cent(num, den) == num < den

\* line 37: bet_amount < 1.00
BelowTicket(num, den) == num < MinTicketCents * den

\* mutant of line 43: math.ceil in place of math.floor
ContractCount_Ceil(num, den, market_price_cents) ==
    -FloorDiv(-num, den * market_price_cents)

\* line 43: math.floor(bet_amount / contract_price_dollars)
ContractCount(num, den, market_price_cents) ==
    LET exact == FloorDiv(num, den * market_price_cents)
    IN  IF /\ num % den = 0
           /\ << num \div den, market_price_cents >> \in FloatFloorShort
        THEN exact - 1
        ELSE exact

calculate_kelly_bet(ai_probability, market_price_cents, bank, daily_limit_remaining) ==
    IF NoEdge(ai_probability, market_price_cents)
    THEN KellyRet("ok", 0, 0)
    ELSE IF RawDen(market_price_cents) = 0
    THEN KellyRet("raised", 0, 0)           \* ZeroDivisionError, line 24
    ELSE LET den == RawDen(market_price_cents)
             num == BetNum(ai_probability, market_price_cents, bank,
                           daily_limit_remaining)
         IN  IF BelowTicket(num, den)
             THEN KellyRet("ok", 0, 0)
             ELSE IF market_price_cents = 0
             THEN KellyRet("raised", 0, 0)  \* ZeroDivisionError, line 43
             ELSE LET count == ContractCount(num, den, market_price_cents)
                  IN  KellyRet("ok", count, count * market_price_cents)

(***************************************************************************)
(* Inputs.                                                                 *)
(***************************************************************************)
Opp(p, c) == [ai_probability |-> p, market_price_cents |-> c]

\* opportunities of a sequential run: all within price 1..99, estimate 0..1
SeqOpps ==
    { Opp(75, 60), Opp(55, 52), Opp(58, 52), Opp(17, 12), Opp(100, 99),
      Opp(100, 1), Opp(0, 60), Opp(75, 5) }

Bankrolls == {1000, 100000}
Budgets == {0, 100, 115, 1000, 100000}

\* arguments of a single call, the ones that violate the preconditions
\* included
CallProbs == {0, 17, 55, 58, 75, 100, -10, 110}
CallPrices == {1, 12, 52, 60, 99, -10, 0, 100}
CallBankrolls == {0, 1000, 100000}
CallLimits == {0, 100, 1000, 100000, -100}

KellyArgs(p, c, b, l) ==
    [ai_probability |-> p, market_price_cents |-> c, bankroll |-> b,
     daily_limit_remaining |-> l]

NoArgs == KellyArgs(0, 0, 0, 0)
NoRet == KellyRet("none", 0, 0)

(***************************************************************************)
(* get_advisor_recommendations (strategic_math.py).  A research result is  *)
(* flattened to one record: res['analysis']['verdict'],                    *)
(* res['analysis']['my_estimated_probability'] (hundredths),               *)
(* res['market']['yes_price'] (cents), res['market']['ticker'] and the     *)
(* 'edge_score' key the function writes into the record it was given.      *)
(* suggested_bet is the "%.2f" text, kept as a number of hundredths of the *)
(* budget's unit; ups[i] is the side the i-th share's double falls to when  *)
(* the exact share lies half way between two hundredths.                   *)
(***************************************************************************)
Res(t, v, p, y) ==
    [ticker |-> t, verdict |-> v, my_estimated_probability |-> p,
     yes_price |-> y, edge_score |-> NoEdgeScore]

\* line 66: max(0, abs(ai_prob - market_prob)), in hundredths
Edge(res) == Abs(res.my_estimated_probability - res.yes_price)

\* line 68: edge > 0.05
EdgeAbove(res) ==
    \/ Edge(res) > MinEdge
    \/ /\ Edge(res) = MinEdge
       /\ \/ /\ res.my_estimated_probability > res.yes_price
             /\ res.yes_price \in EdgeFloatPassUp
          \/ /\ res.my_estimated_probability < res.yes_price
             /\ res.yes_price \in EdgeFloatPassDown

\* lines 61-68: the results the loop appends to active_opportunities
IsActive(res) == res.verdict # "PASS" /\ EdgeAbove(res)

\* mutant of lines 59-71: the survivors in the reverse of the input's order
ActiveOpportunities_Reversed(results) ==
    LET marked == [i \in DOMAIN results |->
                      [results[i] EXCEPT !.edge_score = Edge(results[i])]]
        kept == SelectSeq(marked, IsActive)
    IN  [i \in 1..Len(kept) |-> kept[Len(kept) + 1 - i]]

\* lines 59-71: active_opportunities, each with its edge_score set
ActiveOpportunities(results) ==
    LET marked == [i \in DOMAIN results |->
                      [results[i] EXCEPT !.edge_score = Edge(results[i])]]
    IN  SelectSeq(marked, IsActive)

\* line 71: total_edge_points
TotalEdgePoints(active) ==
    SumSeq([i \in DOMAIN active |-> active[i].edge_score])

\* mutant of line 83: the default budget (env.MAX_BET_AMOUNT_CENTS) used in
\* place of the argument
SuggestedBet_DefaultBudget(op, total, budget, up) ==
    RoundNearest(100 * 1000 * op.edge_score, total, up)

\* lines 82-88: "%.2f" of total_daily_budget * (edge_score / total_edge_points)
SuggestedBet(op, total, budget, up) ==
    RoundNearest(100 * budget * op.edge_score, total, up)

\* lines 85-91
Recommendation(op, total, budget, up) ==
    [ticker |-> op.ticker, suggested_bet |-> SuggestedBet(op, total, budget, up)]

AdvisorRet(k, r) == [kind |-> k, recs |-> r]

get_advisor_recommendations(results, budget, ups) ==
    LET active == ActiveOpportunities(results)
        total == TotalEdgePoints(active)
    IN  IF active = << >>
        THEN AdvisorRet("message", << >>)     \* line 74: a str
        ELSE AdvisorRet("list",
                 [i \in DOMAIN active |-> Recommendation(active[i], total, budget, ups[i])])

\* the sides the shares' doubles can fall to: a choice only where a share
\* lies half way
TieSides(results, budget) ==
    LET active == ActiveOpportunities(results)
        total == TotalEdgePoints(active)
    IN  { ups \in [DOMAIN active -> BOOLEAN] :
            \A i \in DOMAIN active :
               ups[i] => HalfWay(100 * budget * active[i].edge_score, total) }

\* line 69: res['edge_score'] = edge, written into the caller's records
MarkEdges(results) ==
    [i \in DOMAIN results |->
        IF IsActive(results[i])
        THEN [results[i] EXCEPT !.edge_score = Edge(results[i])]
        ELSE results[i]]

\* research results a batch is drawn from; the last two violate the
\* preconditions (estimate above 1, negative price)
PropOpps ==
    { Res("A", "BUY", 70, 50), Res("B", "BUY", 60, 50),
      Res("C", "BUY", 74, 50), Res("D", "BUY", 56, 50),
      Res("E", "BUY", 55, 50), Res("F", "BUY", 52, 50),
      Res("G", "BUY", 20, 60), Res("H", "PASS", 90, 50),
      Res("I", "BUY", 57, 50), Res("J", "BUY", 120, 50),
      Res("K", "BUY", 50, -10) }

PropBudgets == {0, 1000, -1000}

Batches == UNION { [1..n -> PropOpps] : n \in 0..MaxBatch }

NoAdvice == AdvisorRet("none", << >>)


(***************************************************************************)
(* run_advisor_bot: main.py (the first runner) and mainv2.py.  A group of  *)
(* the scout's data is a category with its events, an event kept as its    *)
(* volume.  A pick is what the researcher's JSON holds; numbers are        *)
(* percentages as the prompt asks (market_price 30, estimated_real_prob    *)
(* 55).                                                                    *)
(***************************************************************************)
Group(c, ev) == [category |-> c, events |-> ev]

\* a pick as the model's JSON gives it has no 'category' key
NoCategory == ""

Pick(t, price, prob, conf) ==
    [ticker |-> t, market_price |-> price, estimated_real_prob |-> prob,
     confidence_score |-> conf, category |-> NoCategory]

\* research_strat.py lines 111-112: p['category'] = category
SetCategory(picks, cat) ==
    [i \in DOMAIN picks |-> [picks[i] EXCEPT !.category = cat]]

Context(b, picks, orders) ==
    [budget |-> b, raw_picks |-> picks, final_orders |-> orders]

Categories == {"Sports", "Politics"}
Volumes == {MIN_VOLUME, MIN_VOLUME + 1}
RunnerBudgets == {0, 1000}

EventLists == UNION { [1..n -> Volumes] : n \in 0..MaxEvents }

\* what the scout can hand back as a dict: groups of distinct categories
ScoutDicts ==
    { << >> }
    \cup { << Group(c, ev) >> : c \in Categories, ev \in EventLists }
    \cup { d \in { << Group(c1, e1), Group(c2, e2) >> :
                     c1 \in Categories, c2 \in Categories,
                     e1 \in EventLists, e2 \in EventLists } :
             d[1].category # d[2].category }

PickPool ==
    { Pick("T1", 60, 75, 8), Pick("T2", 60, 40, 8), Pick("T3", 30, 55, 5) }

\* a non-empty answer of research_event_group
PickLists == UNION { [1..n -> PickPool] : n \in 1..MaxPicks }

\* mainv2.py lines 129-142: one order per pick
FormatOrder(pick) ==
    [ticker |-> pick.ticker,
     suggested_bet |-> pick.estimated_real_prob - pick.market_price,
     confidence |-> pick.confidence_score]

\* mutant of mainv2.py line 145: x goes in front of the orders of its own
\* confidence
InsertByConfidence_Unstable(x, sorted) ==
    LET before == SelectSeq(sorted, LAMBDA o : o.confidence > x.confidence)
        after == SelectSeq(sorted, LAMBDA o : o.confidence <= x.confidence)
    IN  before \o << x >> \o after

\* list.sort(key=confidence, reverse=True) is stable: x goes behind every
\* order of at least its confidence
InsertByConfidence(x, sorted) ==
    LET before == SelectSeq(sorted, LAMBDA o : o.confidence >= x.confidence)
        after == SelectSeq(sorted, LAMBDA o : o.confidence < x.confidence)
    IN  before \o << x >> \o after

RECURSIVE SortByConfidence(_)
SortByConfidence(orders) ==
    IF orders = << >> THEN << >>
    ELSE InsertByConfidence(orders[Len(orders)],
                            SortByConfidence(SubSeq(orders, 1, Len(orders) - 1)))

\* mainv2.py lines 128-146
FormattedOrders(picks) ==
    SortByConfidence([i \in DOMAIN picks |-> FormatOrder(picks[i])])

\* main.py line 73: the events of a group above the liquidity threshold
LiquidEvents(events) == SelectSeq(events, LAMBDA v : v > MIN_VOLUME)

\* main.py lines 120-123: the call names its arguments picks= and
\* total_budget=, and get_advisor_recommendations (strategic_math.py line 47)
\* has no such parameters: the call raises TypeError
MainAdvisorCall(picks, budget) == AdvisorRet("raised", << >>)

(***************************************************************************)
(* Two calls of get_advisor_recommendations at once, on the same list      *)
(* object and the same budget.  Each caller has its own frame (the loop    *)
(* position and the locals active_opportunities, total_edge_points,        *)
(* recommendations); the records of research_results are shared, and the   *)
(* 'edge_score' key is the one thing a call writes into them.  A step is   *)
(* one iteration of one of the two loops.                                  *)
(***************************************************************************)
Callers == {1, 2}

\* active holds positions in research_results: references to its records
Frame(pc, i, active, total, recs, ret) ==
    [pc |-> pc, i |-> i, active |-> active, total |-> total, recs |-> recs,
     ret |-> ret]

IdleFrame == Frame("idle", 0, << >>, 0, << >>, NoAdvice)
NewFrame == Frame("scan", 1, << >>, 0, << >>, NoAdvice)

ConcOpps ==
    { Res("A", "BUY", 70, 50), Res("B", "BUY", 60, 50),
      Res("F", "BUY", 52, 50), Res("H", "PASS", 90, 50) }

ConcBatches == UNION { [1..n -> ConcOpps] : n \in 0..MaxBatch }
ConcBudgets == {1000}

\* mutant of line 69: the value written depends on the caller that writes it
ConcWrite_PerCaller(results, i, t) ==
    [results EXCEPT ![i].edge_score = t * Edge(results[i])]

\* line 69: res['edge_score'] = edge, by caller t into the shared record
ConcWrite(results, i, t) ==
    [results EXCEPT ![i].edge_score = Edge(results[i])]

(***************************************************************************)
(* research_event_group (research_strat.py).  A market is kept as its      *)
(* 'yes_ask' key: present or not, and its value in cents.                  *)
(***************************************************************************)
Market(h, a) == [has_yes_ask |-> h, yes_ask |-> a]

AskValues == {0, 1, 50, 99, 100}
Markets == { Market(FALSE, 0) } \cup { Market(TRUE, a) : a \in AskValues }
MarketLists == UNION { [1..n -> Markets] : n \in 0..MaxMarkets }

\* line 36: m.get('yes_ask', 0)
YesAsk(m) == IF m.has_yes_ask THEN m.yes_ask ELSE 0

\* mutant of line 39: the two ends left out
PriceInBounds_Exclusive(price) == price > 1 /\ price < 99

\* line 39: a market is skipped if price < 1 or price > 99
PriceInBounds(price) == ~(price < 1 \/ price > 99)

\* lines 33-45: the markets that get a line of context_text, in order
ContextText(markets) ==
    SelectSeq(markets, LAMBDA m : PriceInBounds(YesAsk(m)))

\* what a call comes to: kind is "list" for a returned list and "raised" for
\* an exception that reaches the caller; path is the return statement taken
ResearchRet(k, path, picks) == [kind |-> k, path |-> path, picks |-> picks]
NoResearch == ResearchRet("none", "none", << >>)

\* the ways the try block of lines 86-122 comes to nothing: the call to the
\* model raises, its answer holds no JSON object, or json.loads rejects it
AiFailures == {"call_raises", "no_json", "bad_json"}

\* mutant of lines 116-122: the failure reaches the caller
OnAiFailure_Propagates(why) == ResearchRet("raised", why, << >>)

\* lines 116-122: return []
OnAiFailure(why) == ResearchRet("list", why, << >>)

(***************************************************************************)
(* current_markets.py: the two scouts and their pagination loops.          *)
(***************************************************************************)
\* str.lower() on the category names of the model
Lower(s) ==
    CASE s \in {"Politics", "POLITICS", "politics"} -> "politics"
      [] s \in {"Sports", "sports"} -> "sports"
      [] s \in {"Crypto", "crypto"} -> "crypto"
      [] s \in {"Weather", "weather"} -> "weather"
      [] s \in {"Uncategorized", "uncategorized"} -> "uncategorized"
      [] OTHER -> s

\* line 32
TargetCatsLower(targets) == { Lower(targets[i]) : i \in DOMAIN targets }

\* an event of a page: its category key may be missing; its markets are
\* given by their volumes
Event(h, c, ms) == [has_category |-> h, category |-> c, markets |-> ms]
RawMarket(v) == [volume |-> v]

\* line 66: event.get("category", "Uncategorized")
EventCat(event) == IF event.has_category THEN event.category ELSE "Uncategorized"

\* lines 89-100: the fields of clean_market the model keeps
CleanMarket(event_cat, market) == [category |-> event_cat, volume |-> market.volume]

\* line 79: sorted(..., key=volume, reverse=True), a stable sort
InsertByVolume(x, sorted) ==
    LET before == SelectSeq(sorted, LAMBDA m : m.volume >= x.volume)
        after == SelectSeq(sorted, LAMBDA m : m.volume < x.volume)
    IN  before \o << x >> \o after

RECURSIVE SortedMarkets(_)
SortedMarkets(raw_markets) ==
    IF raw_markets = << >> THEN << >>
    ELSE InsertByVolume(raw_markets[Len(raw_markets)],
                        SortedMarkets(SubSeq(raw_markets, 1, Len(raw_markets) - 1)))

\* mutant of lines 81-102: the limit is not looked at inside the market loop
AppendMarkets_NoLimit(list, event_cat, ms, max) ==
    list \o [i \in DOMAIN ms |-> CleanMarket(event_cat, ms[i])]

\* lines 81-102: the market loop, which stops at the limit
RECURSIVE AppendMarkets(_, _, _, _)
AppendMarkets(list, event_cat, ms, max) ==
    IF ms = << >> \/ Len(list) >= max THEN list
    ELSE AppendMarkets(Append(list, CleanMarket(event_cat, Head(ms))),
                       event_cat, Tail(ms), max)

\* categorized_markets: the keys of the defaultdict in insertion order
HasKey(cm, key) == \E i \in DOMAIN cm : cm[i].key = key
KeyIndex(cm, key) == CHOOSE i \in DOMAIN cm : cm[i].key = key

\* lines 35, 73: reading a key of the defaultdict creates it
Touch(cm, key) ==
    IF HasKey(cm, key) THEN cm ELSE Append(cm, [key |-> key, markets |-> << >>])

\* lines 64-102: one event of a page
ProcessEvent(cm, event, targets, max) ==
    LET event_cat == EventCat(event)
    IN  IF Lower(event_cat) \notin TargetCatsLower(targets) THEN cm
        ELSE LET touched == Touch(cm, event_cat)
                 i == KeyIndex(touched, event_cat)
             IN  IF Len(touched[i].markets) >= max THEN touched
                 ELSE [touched EXCEPT ![i].markets =
                          AppendMarkets(@, event_cat,
                                        SortedMarkets(event.markets), max)]

RECURSIVE ProcessEvents(_, _, _, _)
ProcessEvents(cm, events, targets, max) ==
    IF events = << >> THEN cm
    ELSE ProcessEvents(ProcessEvent(cm, Head(events), targets, max),
                       Tail(events), targets, max)

\* lines 109-112: the length under the last key that matches
FoundCount(cm, cat) ==
    LET matching == { i \in DOMAIN cm : Lower(cm[i].key) = Lower(cat) }
    IN  IF matching = {} THEN 0
        ELSE Len(cm[CHOOSE i \in matching : \A j \in matching : j <= i].markets)

\* lines 106-116
AllFull(cm, targets, max) ==
    \A i \in DOMAIN targets : ~(FoundCount(cm, targets[i]) < max)

NoCursor == ""

\* mutant of lines 118-124: a page without a cursor does not end the loop
HasMorePages_IgnoresCursor(all_full, next_cursor) == ~all_full

\* lines 118-124: has_more_pages after a page
HasMorePages(all_full, next_cursor) == ~all_full /\ next_cursor # NoCursor

\* what the server answers to one request
Response(kind, next_cursor) == [kind |-> kind, cursor |-> next_cursor]
NoResponse == Response("none", NoCursor)
Responses ==
    { Response("non200", NoCursor), Response("raises", NoCursor) }
    \cup { Response(k, c) : k \in {"no_events", "page"}, c \in {NoCursor, "next"} }

\* the server sends at most MaxPages pages with events
ServerCanSend(r, pages) ==
    r.kind = "page" => /\ pages < MaxPages
                       /\ r.cursor # NoCursor => pages + 1 < MaxPages

ScoutRet(kind, value) == [kind |-> kind, value |-> value]
NoScoutRet == ScoutRet("none", << >>)

TargetLists ==
    { << "Politics" >>, << "POLITICS", "Sports" >>, << "sports", "Weather" >>,
      << "uncategorized" >> }
PerCategoryLimits == {0, 1, 2}

ScoutEvents ==
    { Event(TRUE, "Politics", << RawMarket(5), RawMarket(9) >>),
      Event(TRUE, "politics", << RawMarket(7) >>),
      Event(TRUE, "Sports", << RawMarket(5), RawMarket(9) >>),
      Event(TRUE, "Sports", << >>),
      Event(TRUE, "Crypto", << RawMarket(7) >>),
      Event(FALSE, "", << RawMarket(7) >>) }

ScoutPages == UNION { [1..n -> ScoutEvents] : n \in 1..MaxPageEvents }

\* ---- get_daily_markets
\* the expiration_time of a market: missing, not ISO, ISO without an
\* offset, or ISO with one, as whole hours after now
Expiration(kind, hours) == [kind |-> kind, hours |-> hours]
DailyMarket(kind, hours) == [expiration_time |-> Expiration(kind, hours)]

\* lines 176-177, 228: now < exp_dt <= now + 24 hours
InWindow(hours) == 0 < hours /\ hours <= DayHours

\* lines 230-240: the field of clean_market the model keeps
DailyCleanMarket(market) == [expiration |-> market.expiration_time.hours]

ScanResult(candidates, raised) == [candidates |-> candidates, raised |-> raised]

\* lines 213-242: the markets of one event; comparing now with a datetime
\* that has no offset raises TypeError, which leaves the loops
RECURSIVE ScanMarkets(_, _)
ScanMarkets(candidates, ms) ==
    IF ms = << >> THEN ScanResult(candidates, FALSE)
    ELSE LET exp == Head(ms).expiration_time
         IN  CASE exp.kind = "missing" -> ScanMarkets(candidates, Tail(ms))
               [] exp.kind = "unparsable" -> ScanMarkets(candidates, Tail(ms))
               [] exp.kind = "naive" -> ScanResult(candidates, TRUE)
               [] OTHER ->
                    ScanMarkets(IF InWindow(exp.hours)
                                THEN Append(candidates, DailyCleanMarket(Head(ms)))
                                ELSE candidates,
                                Tail(ms))

\* lines 210-242: the events of one page
RECURSIVE ScanEvents(_, _)
ScanEvents(candidates, events) ==
    IF events = << >> THEN ScanResult(candidates, FALSE)
    ELSE LET r == ScanMarkets(candidates, Head(events))
         IN  IF r.raised THEN r ELSE ScanEvents(r.candidates, Tail(events))

\* line 260: list.sort(key=expiration), a stable ascending sort
InsertByExpiration(x, sorted) ==
    LET before == SelectSeq(sorted, LAMBDA m : m.expiration <= x.expiration)
        after == SelectSeq(sorted, LAMBDA m : m.expiration > x.expiration)
    IN  before \o << x >> \o after

RECURSIVE SortByExpiration(_)
SortByExpiration(candidates) ==
    IF candidates = << >> THEN << >>
    ELSE InsertByExpiration(candidates[Len(candidates)],
                            SortByExpiration(SubSeq(candidates, 1, Len(candidates) - 1)))

\* list[:n] of Python
SliceTo(list, n) ==
    LET stop == IF n >= 0 THEN n ELSE Len(list) + n
    IN  SubSeq(list, 1, IF stop > Len(list) THEN Len(list)
                         ELSE IF stop < 0 THEN 0 ELSE stop)

\* mutant of lines 260-263: the slice is taken from the list as collected
FinalMarkets_AsCollected(candidates, max) == SliceTo(candidates, max)

\* lines 260-263
FinalMarkets(candidates, max) == SliceTo(SortByExpiration(candidates), max)

DailyLimits == {0, 1, 2}

DailyEvents ==
    { << DailyMarket("aware", 24), DailyMarket("aware", 0) >>,
      << DailyMarket("aware", 25), DailyMarket("aware", 1) >>,
      << DailyMarket("missing", 0), DailyMarket("unparsable", 0) >>,
      << DailyMarket("aware", 1), DailyMarket("naive", 1) >>,
      << >> }

DailyPages == UNION { [1..n -> DailyEvents] : n \in 1..MaxPageEvents }

(***************************************************************************)
(* The state machine.  A run exercises one entry point.                    *)
(***************************************************************************)
Entries ==
    {"kelly_call", "kelly_seq", "proportional", "mainv2", "main", "concurrent",
     "research", "scout", "daily"}

KellyIdle ==
    /\ bankroll = 0 /\ budget_cents = 0 /\ budget_remaining = 0
    /\ spent = 0 /\ pos = 0 /\ kelly_args = NoArgs /\ kelly_ret = NoRet

PropIdle ==
    /\ research_results = << >> /\ total_daily_budget = 0
    /\ advisor_ret = NoAdvice

RunIdle ==
    /\ run_pc = "idle" /\ run_exit = "none" /\ market_data = << >>
    /\ cat_idx = 0 /\ bot_context = Context(0, << >>, << >>)

ConcIdle == calls = [t \in Callers |-> IdleFrame]

ResearchIdle ==
    /\ category = NoCategory
    /\ market_list = << >> /\ context_text = << >>
    /\ research_ret = NoResearch

ScoutIdle ==
    /\ scout_pc = "idle" /\ target_categories = << >>
    /\ max_per_category = 0 /\ max_markets = 0
    /\ cursor = NoCursor /\ has_more_pages = FALSE /\ page_count = 0
    /\ response = NoResponse /\ categorized_markets = << >>
    /\ daily_candidates = << >> /\ scout_ret = NoScoutRet

InitKellyCall ==
    /\ entry = "kelly_call" /\ KellyIdle /\ PropIdle /\ RunIdle
    /\ ConcIdle /\ ResearchIdle /\ ScoutIdle

InitKellySeq ==
    /\ entry = "kelly_seq"
    /\ bankroll \in Bankrolls
    /\ budget_cents \in Budgets
    /\ budget_remaining = budget_cents
    /\ spent = 0 /\ pos = 0 /\ kelly_args = NoArgs /\ kelly_ret = NoRet
    /\ PropIdle /\ RunIdle /\ ConcIdle /\ ResearchIdle /\ ScoutIdle

InitProportional ==
    /\ entry = "proportional"
    /\ KellyIdle
    /\ research_results \in Batches
    /\ total_daily_budget \in PropBudgets
    /\ advisor_ret = NoAdvice
    /\ RunIdle /\ ConcIdle /\ ResearchIdle /\ ScoutIdle

\* both runners: bot_context as lines 31-35 (mainv2.py) and 34-40 (main.py)
\* build it, DAILY_BUDGET being whatever env.py configures
InitRunner ==
    /\ entry \in {"mainv2", "main"}
    /\ KellyIdle /\ PropIdle /\ ConcIdle /\ ResearchIdle /\ ScoutIdle
    /\ run_pc = "scout" /\ run_exit = "none" /\ market_data = << >>
    /\ cat_idx = 0
    /\ \E b \in RunnerBudgets : bot_context = Context(b, << >>, << >>)

\* two callers about to run get_advisor_recommendations on one list
InitConc ==
    /\ entry = "concurrent"
    /\ KellyIdle /\ RunIdle /\ ResearchIdle /\ ScoutIdle
    /\ research_results \in ConcBatches
    /\ total_daily_budget \in ConcBudgets
    /\ advisor_ret = NoAdvice
    /\ calls = [t \in Callers |-> NewFrame]

InitResearch ==
    /\ entry = "research"
    /\ KellyIdle /\ PropIdle /\ RunIdle /\ ConcIdle /\ ScoutIdle
    /\ category \in Categories
    /\ market_list \in MarketLists
    /\ context_text = << >>
    /\ research_ret = NoResearch

\* fetch_current_kalshi_markets about to enter its loop (lines 32-41)
InitScout ==
    /\ entry = "scout"
    /\ KellyIdle /\ PropIdle /\ RunIdle /\ ConcIdle /\ ResearchIdle
    /\ scout_pc = "request"
    /\ target_categories \in TargetLists
    /\ max_per_category \in PerCategoryLimits
    /\ max_markets = 0
    /\ cursor = NoCursor /\ has_more_pages = TRUE /\ page_count = 0
    /\ response = NoResponse /\ categorized_markets = << >>
    /\ daily_candidates = << >> /\ scout_ret = NoScoutRet

\* get_daily_markets about to enter its loop (lines 176-186)
InitDaily ==
    /\ entry = "daily"
    /\ KellyIdle /\ PropIdle /\ RunIdle /\ ConcIdle /\ ResearchIdle
    /\ scout_pc = "request"
    /\ target_categories = << >> /\ max_per_category = 0
    /\ max_markets \in DailyLimits
    /\ cursor = NoCursor /\ has_more_pages = TRUE /\ page_count = 0
    /\ response = NoResponse /\ categorized_markets = << >>
    /\ daily_candidates = << >> /\ scout_ret = NoScoutRet

InitAlloc == InitKellyCall \/ InitKellySeq \/ InitProportional

Init ==
    InitAlloc \/ InitRunner \/ InitConc \/ InitResearch \/ InitScout \/ InitDaily

\* one call of calculate_kelly_bet with arbitrary arguments
KellyCall(p, c, b, l) ==
    /\ entry = "kelly_call" /\ kelly_ret = NoRet
    /\ kelly_args' = KellyArgs(p, c, b, l)
    /\ kelly_ret' = calculate_kelly_bet(p, c, b, l)
    /\ UNCHANGED << entry, bankroll, budget_cents, budget_remaining, spent, pos >>
    /\ UNCHANGED propVars /\ UNCHANGED runVars
    /\ UNCHANGED concVars /\ UNCHANGED researchVars
    /\ UNCHANGED scoutVars

\* the sequential policy: size the next opportunity against what is left,
\* then take its spend off the running balance
SeqStep(o) ==
    /\ entry = "kelly_seq"
    /\ pos < MaxSeq
    /\ LET ret == calculate_kelly_bet(o.ai_probability, o.market_price_cents, bankroll, budget_remaining)
       IN  /\ kelly_args' = KellyArgs(o.ai_probability, o.market_price_cents, bankroll, budget_remaining)
           /\ kelly_ret' = ret
           /\ budget_remaining' = budget_remaining - ret.spend
           /\ spent' = spent + ret.spend
    /\ pos' = pos + 1
    /\ UNCHANGED << entry, bankroll, budget_cents >>
    /\ UNCHANGED propVars /\ UNCHANGED runVars
    /\ UNCHANGED concVars /\ UNCHANGED researchVars
    /\ UNCHANGED scoutVars

\* one call of get_advisor_recommendations on the batch
Advise ==
    /\ entry = "proportional"
    /\ advisor_ret = NoAdvice
    /\ \E ups \in TieSides(research_results, total_daily_budget) :
          advisor_ret' = get_advisor_recommendations(research_results, total_daily_budget, ups)
    /\ research_results' = MarkEdges(research_results)
    /\ UNCHANGED << entry, total_daily_budget >>
    /\ UNCHANGED kellyVars /\ UNCHANGED runVars
    /\ UNCHANGED concVars /\ UNCHANGED researchVars
    /\ UNCHANGED scoutVars

Return(path) == run_pc' = "returned" /\ run_exit' = path

\* ---- mainv2.py
\* lines 49-70: the scout raises
V2ScoutFails ==
    /\ entry = "mainv2" /\ run_pc = "scout"
    /\ Return("scout_failure")
    /\ UNCHANGED << entry, market_data, cat_idx, bot_context >>
    /\ UNCHANGED kellyVars /\ UNCHANGED propVars
    /\ UNCHANGED concVars /\ UNCHANGED researchVars
    /\ UNCHANGED scoutVars

\* lines 50-59, 77-83: daily mode, a flat list wrapped in one group
V2ScoutDaily(events) ==
    /\ entry = "mainv2" /\ run_pc = "scout"
    /\ market_data' = IF events # << >> THEN << Group("Daily_Movers", events) >> ELSE << >>
    /\ run_pc' = "research" /\ cat_idx' = 1
    /\ UNCHANGED << entry, run_exit, bot_context >>
    /\ UNCHANGED kellyVars /\ UNCHANGED propVars
    /\ UNCHANGED concVars /\ UNCHANGED researchVars
    /\ UNCHANGED scoutVars

\* lines 61-66, 85-87: standard mode, the scout's dict used as it is
V2ScoutStandard(d) ==
    /\ entry = "mainv2" /\ run_pc = "scout"
    /\ market_data' = d
    /\ run_pc' = "research" /\ cat_idx' = 1
    /\ UNCHANGED << entry, run_exit, bot_context >>
    /\ UNCHANGED kellyVars /\ UNCHANGED propVars
    /\ UNCHANGED concVars /\ UNCHANGED researchVars
    /\ UNCHANGED scoutVars

InLoop(e) == entry = e /\ run_pc = "research" /\ cat_idx <= Len(market_data)

NextGroup ==
    /\ cat_idx' = cat_idx + 1
    /\ UNCHANGED << entry, run_pc, run_exit, market_data >>
    /\ UNCHANGED kellyVars /\ UNCHANGED propVars
    /\ UNCHANGED concVars /\ UNCHANGED researchVars
    /\ UNCHANGED scoutVars

\* lines 102-103: a group without events
V2SkipEmpty ==
    /\ InLoop("mainv2") /\ market_data[cat_idx].events = << >>
    /\ UNCHANGED bot_context /\ NextGroup

\* lines 110-114: the researcher returns picks
V2ResearchPicks(cat_picks) ==
    /\ InLoop("mainv2") /\ market_data[cat_idx].events # << >>
    /\ bot_context' =
          [bot_context EXCEPT
              !.raw_picks = @ \o SetCategory(cat_picks, market_data[cat_idx].category)]
    /\ NextGroup

\* mutant of lines 115-120: a category without picks empties raw_picks
V2ResearchNothing_DropsPicks ==
    /\ InLoop("mainv2") /\ market_data[cat_idx].events # << >>
    /\ bot_context' = [bot_context EXCEPT !.raw_picks = << >>]
    /\ NextGroup

\* lines 115-120: the researcher returns nothing, or raises
V2ResearchNothing ==
    /\ InLoop("mainv2") /\ market_data[cat_idx].events # << >>
    /\ UNCHANGED bot_context /\ NextGroup

\* mutant of lines 125-154: the orders' edges are taken off the budget
V2Advisor_SpendsBudget ==
    /\ entry = "mainv2" /\ run_pc = "research" /\ cat_idx > Len(market_data)
    /\ bot_context' =
          IF bot_context.raw_picks # << >>
          THEN [bot_context EXCEPT
                   !.final_orders = FormattedOrders(bot_context.raw_picks),
                   !.budget = @ - Len(bot_context.raw_picks)]
          ELSE bot_context
    /\ Return("completed")
    /\ UNCHANGED << entry, market_data, cat_idx >>
    /\ UNCHANGED kellyVars /\ UNCHANGED propVars
    /\ UNCHANGED concVars /\ UNCHANGED researchVars
    /\ UNCHANGED scoutVars

\* lines 125-154: the advisor step and the return
V2Advisor ==
    /\ entry = "mainv2" /\ run_pc = "research" /\ cat_idx > Len(market_data)
    /\ bot_context' =
          IF bot_context.raw_picks # << >>
          THEN [bot_context EXCEPT !.final_orders = FormattedOrders(bot_context.raw_picks)]
          ELSE bot_context
    /\ Return("completed")
    /\ UNCHANGED << entry, market_data, cat_idx >>
    /\ UNCHANGED kellyVars /\ UNCHANGED propVars
    /\ UNCHANGED concVars /\ UNCHANGED researchVars
    /\ UNCHANGED scoutVars

\* ---- main.py
\* lines 51-56: scout.fetch_event_batches raises
MainScoutFails ==
    /\ entry = "main" /\ run_pc = "scout"
    /\ Return("scout_failure")
    /\ UNCHANGED << entry, market_data, cat_idx, bot_context >>
    /\ UNCHANGED kellyVars /\ UNCHANGED propVars
    /\ UNCHANGED concVars /\ UNCHANGED researchVars
    /\ UNCHANGED scoutVars

\* lines 51-59: scout.fetch_event_batches returns its dict
MainScout(d) ==
    /\ entry = "main" /\ run_pc = "scout"
    /\ market_data' = d
    /\ run_pc' = "research" /\ cat_idx' = 1
    /\ UNCHANGED << entry, run_exit, bot_context >>
    /\ UNCHANGED kellyVars /\ UNCHANGED propVars
    /\ UNCHANGED concVars /\ UNCHANGED researchVars
    /\ UNCHANGED scoutVars

\* lines 73-80: no event of the group is liquid
MainSkipIlliquid ==
    /\ InLoop("main") /\ LiquidEvents(market_data[cat_idx].events) = << >>
    /\ UNCHANGED bot_context /\ NextGroup

\* lines 85-93
MainResearchPicks(cat_picks) ==
    /\ InLoop("main") /\ LiquidEvents(market_data[cat_idx].events) # << >>
    /\ bot_context' =
          [bot_context EXCEPT
              !.raw_picks = @ \o SetCategory(cat_picks, market_data[cat_idx].category)]
    /\ NextGroup

\* lines 94-99
MainResearchNothing ==
    /\ InLoop("main") /\ LiquidEvents(market_data[cat_idx].events) # << >>
    /\ UNCHANGED bot_context /\ NextGroup

\* lines 104-128: the advisor step
MainAdvisor ==
    /\ entry = "main" /\ run_pc = "research" /\ cat_idx > Len(market_data)
    /\ IF Len(bot_context.raw_picks) = 0
       THEN Return("no_picks")
       ELSE IF MainAdvisorCall(bot_context.raw_picks, bot_context.budget).kind = "raised"
       THEN Return("advisor_error")
       ELSE Return("report")
    /\ bot_context' =
          IF /\ Len(bot_context.raw_picks) # 0
             /\ MainAdvisorCall(bot_context.raw_picks, bot_context.budget).kind # "raised"
          THEN [bot_context EXCEPT !.final_orders =
                   MainAdvisorCall(bot_context.raw_picks, bot_context.budget).recs]
          ELSE bot_context
    /\ UNCHANGED << entry, market_data, cat_idx >>
    /\ UNCHANGED kellyVars /\ UNCHANGED propVars
    /\ UNCHANGED concVars /\ UNCHANGED researchVars
    /\ UNCHANGED scoutVars

\* ---- get_advisor_recommendations, two callers
ConcFrame ==
    /\ UNCHANGED << entry, total_daily_budget, advisor_ret >>
    /\ UNCHANGED kellyVars /\ UNCHANGED runVars /\ UNCHANGED researchVars
    /\ UNCHANGED scoutVars

\* lines 59-71: one iteration of the first loop
ConcScan(t) ==
    /\ entry = "concurrent" /\ calls[t].pc = "scan"
    /\ calls[t].i <= Len(research_results)
    /\ LET i == calls[t].i
           res == research_results[i]
       IN  IF IsActive(res)
           THEN /\ research_results' = ConcWrite(research_results, i, t)
                /\ calls' = [calls EXCEPT ![t] =
                               [@ EXCEPT !.i = i + 1,
                                         !.active = Append(@, i),
                                         !.total = @ + Edge(res)]]
           ELSE /\ UNCHANGED research_results
                /\ calls' = [calls EXCEPT ![t].i = i + 1]
    /\ ConcFrame

\* lines 73-79: after the first loop
ConcEndScan(t) ==
    /\ entry = "concurrent" /\ calls[t].pc = "scan"
    /\ calls[t].i > Len(research_results)
    /\ calls' = [calls EXCEPT ![t] =
                    IF @.active = << >>
                    THEN [@ EXCEPT !.pc = "done", !.ret = AdvisorRet("message", << >>)]
                    ELSE [@ EXCEPT !.pc = "share", !.i = 1]]
    /\ UNCHANGED research_results /\ ConcFrame

\* lines 80-91: one iteration of the second loop; op['edge_score'] is read
\* from the shared record
ConcShare(t) ==
    /\ entry = "concurrent" /\ calls[t].pc = "share"
    /\ calls[t].i <= Len(calls[t].active)
    /\ LET op == research_results[calls[t].active[calls[t].i]]
       IN  \E up \in BOOLEAN :
              /\ up => HalfWay(100 * total_daily_budget * op.edge_score, calls[t].total)
              /\ calls' = [calls EXCEPT ![t] =
                             [@ EXCEPT !.i = @ + 1,
                                       !.recs = Append(@, Recommendation(op, calls[t].total, total_daily_budget, up))]]
    /\ UNCHANGED research_results /\ ConcFrame

\* line 93
ConcReturn(t) ==
    /\ entry = "concurrent" /\ calls[t].pc = "share"
    /\ calls[t].i > Len(calls[t].active)
    /\ calls' = [calls EXCEPT ![t] =
                    [@ EXCEPT !.pc = "done", !.ret = AdvisorRet("list", calls[t].recs)]]
    /\ UNCHANGED research_results /\ ConcFrame

\* ---- research_event_group
ResearchFrame ==
    /\ UNCHANGED << entry, category, market_list >>
    /\ UNCHANGED kellyVars /\ UNCHANGED propVars /\ UNCHANGED runVars
    /\ UNCHANGED concVars /\ UNCHANGED scoutVars

\* lines 26-27: nothing to analyse
ResearchEmpty ==
    /\ entry = "research" /\ research_ret = NoResearch
    /\ market_list = << >>
    /\ research_ret' = ResearchRet("list", "empty", << >>)
    /\ UNCHANGED context_text /\ ResearchFrame

\* lines 33-45 and 86-114: the prompt is built and the model answers with
\* a JSON object; its picks (there may be none) get the category
ResearchAnswers(picks) ==
    /\ entry = "research" /\ research_ret = NoResearch
    /\ market_list # << >>
    /\ context_text' = ContextText(market_list)
    /\ research_ret' = ResearchRet("list", "picks", SetCategory(picks, category))
    /\ ResearchFrame

\* lines 33-45 and 86-122: the prompt is built and the try block fails
ResearchNothing(why) ==
    /\ entry = "research" /\ research_ret = NoResearch
    /\ market_list # << >>
    /\ context_text' = ContextText(market_list)
    /\ research_ret' = OnAiFailure(why)
    /\ ResearchFrame

\* ---- fetch_current_kalshi_markets (current_markets.py)
ScoutFrame ==
    /\ UNCHANGED << entry, target_categories, max_per_category, max_markets >>
    /\ UNCHANGED kellyVars /\ UNCHANGED propVars /\ UNCHANGED runVars
    /\ UNCHANGED concVars /\ UNCHANGED researchVars

\* lines 43-48: the loop goes round and the request is answered
ScoutRequest(r) ==
    /\ entry = "scout" /\ scout_pc = "request" /\ has_more_pages
    /\ ServerCanSend(r, page_count)
    /\ response' = r /\ scout_pc' = "respond"
    /\ UNCHANGED << cursor, has_more_pages, page_count, categorized_markets,
                    daily_candidates, scout_ret >>
    /\ ScoutFrame

\* lines 50-52: break
ScoutNon200 ==
    /\ entry = "scout" /\ scout_pc = "respond" /\ response.kind = "non200"
    /\ scout_pc' = "report"
    /\ UNCHANGED << cursor, has_more_pages, page_count, response,
                    categorized_markets, daily_candidates, scout_ret >>
    /\ ScoutFrame

\* lines 48, 54, 126-128: requests.get or response.json() raises
ScoutRaises ==
    /\ entry = "scout" /\ scout_pc = "respond" /\ response.kind = "raises"
    /\ has_more_pages' = FALSE /\ scout_pc' = "report"
    /\ UNCHANGED << cursor, page_count, response, categorized_markets,
                    daily_candidates, scout_ret >>
    /\ ScoutFrame

\* lines 54-59: no events, break
ScoutNoEvents ==
    /\ entry = "scout" /\ scout_pc = "respond" /\ response.kind = "no_events"
    /\ cursor' = response.cursor /\ scout_pc' = "report"
    /\ UNCHANGED << has_more_pages, page_count, response, categorized_markets,
                    daily_candidates, scout_ret >>
    /\ ScoutFrame

\* lines 54-124: a page of events is gone through
ScoutPage(events) ==
    /\ entry = "scout" /\ scout_pc = "respond" /\ response.kind = "page"
    /\ cursor' = response.cursor
    /\ page_count' = page_count + 1
    /\ categorized_markets' =
          ProcessEvents(categorized_markets, events, target_categories,
                        max_per_category)
    /\ has_more_pages' =
          HasMorePages(AllFull(categorized_markets', target_categories,
                               max_per_category),
                       cursor')
    /\ scout_pc' = IF has_more_pages' THEN "request" ELSE "report"
    /\ UNCHANGED << response, daily_candidates, scout_ret >>
    /\ ScoutFrame

\* lines 131-147: the report and the return
ScoutReturn ==
    /\ entry = "scout" /\ scout_pc = "report"
    /\ scout_ret' = ScoutRet("dict", categorized_markets)
    /\ scout_pc' = "returned"
    /\ UNCHANGED << cursor, has_more_pages, page_count, response,
                    categorized_markets, daily_candidates >>
    /\ ScoutFrame

\* ---- get_daily_markets (current_markets.py)
\* lines 188-193
DailyRequest(r) ==
    /\ entry = "daily" /\ scout_pc = "request" /\ has_more_pages
    /\ ServerCanSend(r, page_count)
    /\ response' = r /\ scout_pc' = "respond"
    /\ UNCHANGED << cursor, has_more_pages, page_count, categorized_markets,
                    daily_candidates, scout_ret >>
    /\ ScoutFrame

\* lines 195-197: break
DailyNon200 ==
    /\ entry = "daily" /\ scout_pc = "respond" /\ response.kind = "non200"
    /\ scout_pc' = "report"
    /\ UNCHANGED << cursor, has_more_pages, page_count, response,
                    categorized_markets, daily_candidates, scout_ret >>
    /\ ScoutFrame

\* lines 193, 199, 251-253
DailyRaises ==
    /\ entry = "daily" /\ scout_pc = "respond" /\ response.kind = "raises"
    /\ has_more_pages' = FALSE /\ scout_pc' = "report"
    /\ UNCHANGED << cursor, page_count, response, categorized_markets,
                    daily_candidates, scout_ret >>
    /\ ScoutFrame

\* lines 199-204: no events, break
DailyNoEvents ==
    /\ entry = "daily" /\ scout_pc = "respond" /\ response.kind = "no_events"
    /\ cursor' = response.cursor /\ scout_pc' = "report"
    /\ UNCHANGED << has_more_pages, page_count, response, categorized_markets,
                    daily_candidates, scout_ret >>
    /\ ScoutFrame

\* lines 199-253: a page of events is gone through
DailyPage(events) ==
    /\ entry = "daily" /\ scout_pc = "respond" /\ response.kind = "page"
    /\ cursor' = response.cursor
    /\ page_count' = page_count + 1
    /\ LET r == ScanEvents(daily_candidates, events)
       IN  /\ daily_candidates' = r.candidates
           /\ has_more_pages' = (~r.raised /\ cursor' # NoCursor)
    /\ scout_pc' = IF has_more_pages' THEN "request" ELSE "report"
    /\ UNCHANGED << response, categorized_markets, scout_ret >>
    /\ ScoutFrame

\* lines 260-277: sort, slice, report and return
DailyReturn ==
    /\ entry = "daily" /\ scout_pc = "report"
    /\ daily_candidates' = SortByExpiration(daily_candidates)
    /\ scout_ret' = ScoutRet("list", FinalMarkets(daily_candidates, max_markets))
    /\ scout_pc' = "returned"
    /\ UNCHANGED << cursor, has_more_pages, page_count, response,
                    categorized_markets >>
    /\ ScoutFrame

NextAlloc ==
    \/ \E p \in CallProbs, c \in CallPrices, b \in CallBankrolls, l \in CallLimits : KellyCall(p, c, b, l)
    \/ \E o \in SeqOpps : SeqStep(o)
    \/ Advise

NextRunner ==
    \/ V2ScoutFails
    \/ \E ev \in EventLists : V2ScoutDaily(ev)
    \/ \E d \in ScoutDicts : V2ScoutStandard(d)
    \/ V2SkipEmpty
    \/ \E cp \in PickLists : V2ResearchPicks(cp)
    \/ V2ResearchNothing
    \/ V2Advisor
    \/ MainScoutFails
    \/ \E d \in ScoutDicts : MainScout(d)
    \/ MainSkipIlliquid
    \/ \E cp \in PickLists : MainResearchPicks(cp)
    \/ MainResearchNothing
    \/ MainAdvisor

NextConc ==
    \E t \in Callers :
        ConcScan(t) \/ ConcEndScan(t) \/ ConcShare(t) \/ ConcReturn(t)

NextResearch ==
    \/ ResearchEmpty
    \/ \E picks \in PickLists \cup { << >> } : ResearchAnswers(picks)
    \/ \E why \in AiFailures : ResearchNothing(why)

NextScout ==
    \/ \E r \in Responses : ScoutRequest(r)
    \/ ScoutNon200
    \/ ScoutRaises
    \/ ScoutNoEvents
    \/ \E events \in ScoutPages : ScoutPage(events)
    \/ ScoutReturn

NextDaily ==
    \/ \E r \in Responses : DailyRequest(r)
    \/ DailyNon200
    \/ DailyRaises
    \/ DailyNoEvents
    \/ \E events \in DailyPages : DailyPage(events)
    \/ DailyReturn

Next ==
    NextAlloc \/ NextRunner \/ NextConc \/ NextResearch \/ NextScout \/ NextDaily

\* every entry point
Spec == Init /\ [][Next]_vars

\* the sizing functions alone
SpecAlloc == InitAlloc /\ [][NextAlloc]_vars

\* the runners alone
SpecRunner == InitRunner /\ [][NextRunner]_vars

\* two concurrent calls of get_advisor_recommendations
SpecConc == InitConc /\ [][NextConc]_vars

\* research_event_group alone
SpecResearch == InitResearch /\ [][NextResearch]_vars

\* fetch_current_kalshi_markets alone
SpecScout == InitScout /\ [][NextScout]_vars

\* the same, the loop never standing still while it has a step to take:
\* the function is sequential code and every request it sends is answered
\* or raises
SpecScoutFair == InitScout /\ [][NextScout]_vars /\ WF_vars(NextScout)

\* get_daily_markets alone
SpecDaily == InitDaily /\ [][NextDaily]_vars

(***************************************************************************)
(* Helpers of the properties.                                              *)
(***************************************************************************)
ValidPrice(c) == c \in 1..99
ValidProb(p) == p \in 0..100

Called == kelly_ret.kind # "none"
Advised == advisor_ret.kind # "none"

\* the hundredths recommended over a whole result
TotalSuggested(ret) ==
    SumSeq([i \in DOMAIN ret.recs |-> ret.recs[i].suggested_bet])

ValidBatch(results) ==
    \A i \in DOMAIN results :
        /\ ValidPrice(results[i].yes_price)
        /\ ValidProb(results[i].my_estimated_probability)

\* what the i-th result of the batch is given: its recommendation's
\* hundredths, 0 when it gets none
ShareOf(results, budget, i) ==
    IF ~IsActive(results[i]) THEN 0
    ELSE LET active == ActiveOpportunities(results)
         IN  SuggestedBet([results[i] EXCEPT !.edge_score = Edge(results[i])],
                          TotalEdgePoints(active), budget, FALSE)

WithProb(results, i, p) ==
    [results EXCEPT ![i] = [@ EXCEPT !.my_estimated_probability = p]]

PropProbs == { r.my_estimated_probability : r \in PropOpps }

(***************************************************************************)
(* C1: under the proportional policy, for every batch of valid             *)
(* opportunities and every budget >= 0, the recommended amounts sum to at  *)
(* most the budget (rounding never overspends).                            *)
(***************************************************************************)
C1_NeverOverspends ==
    (/\ entry = "proportional" /\ Advised
     /\ total_daily_budget >= 0 /\ ValidBatch(research_results))
    => TotalSuggested(advisor_ret) <= 100 * total_daily_budget

(***************************************************************************)
(* C2: one call of calculate_kelly_bet with a price in 1..99, a bankroll   *)
(* >= 0 and a remaining budget >= 0 returns spend <= budget_remaining, and *)
(* whenever it computes a bet (the edge gate is passed),                   *)
(* spend <= bet <= budget_remaining.                                       *)
(***************************************************************************)
C2_SpendWithinBet ==
    LET a == kelly_args
        den == RawDen(a.market_price_cents)
        num == BetNum(a.ai_probability, a.market_price_cents, a.bankroll, a.daily_limit_remaining)
    IN  (/\ Called /\ ValidPrice(a.market_price_cents)
         /\ a.bankroll >= 0 /\ a.daily_limit_remaining >= 0)
        => /\ kelly_ret.kind = "ok"
           /\ kelly_ret.spend <= a.daily_limit_remaining
           /\ ~NoEdge(a.ai_probability, a.market_price_cents)
                => /\ kelly_ret.spend * den <= num
                   /\ num <= a.daily_limit_remaining * den

C2_Witness ==
    /\ entry = "kelly_call" /\ kelly_ret.kind = "ok" /\ kelly_ret.spend > 0
    /\ ValidPrice(kelly_args.market_price_cents)
    /\ kelly_ret.spend < kelly_args.daily_limit_remaining
    /\ RawNum(kelly_args.ai_probability, kelly_args.market_price_cents, kelly_args.bankroll)
         > kelly_args.daily_limit_remaining * RawDen(kelly_args.market_price_cents)

(***************************************************************************)
(* C3: in a sequential run, after every prefix of the sequence the         *)
(* remaining budget is >= 0 and the running sum of the spends is at most   *)
(* the budget the run started with.                                        *)
(***************************************************************************)
C3_SequentialWithinBudget ==
    entry = "kelly_seq"
    => /\ budget_remaining >= 0
       /\ spent <= budget_cents
       /\ budget_remaining = budget_cents - spent

C3_Witness ==
    /\ entry = "kelly_seq" /\ pos >= 2 /\ kelly_ret.spend > 0
    /\ spent > kelly_ret.spend /\ budget_remaining > 0

(***************************************************************************)
(* C4: under both policies an opportunity with                             *)
(* estimated_probability <= market_price/100 + 0.05 (the comparison the    *)
(* Kelly gate makes) gets no contracts (Kelly) and no recommendation       *)
(* (proportional).                                                         *)
(***************************************************************************)
C4_MinimumEdgeGate ==
    /\ (/\ Called /\ kelly_ret.kind = "ok"
        /\ ValidPrice(kelly_args.market_price_cents)
        /\ NoEdge(kelly_args.ai_probability, kelly_args.market_price_cents))
       => kelly_ret.count = 0
    /\ (entry = "proportional" /\ Advised /\ total_daily_budget >= 0)
       => \A i \in DOMAIN research_results :
             (/\ ValidPrice(research_results[i].yes_price)
              /\ NoEdge(research_results[i].my_estimated_probability, research_results[i].yes_price))
             => \A j \in DOMAIN advisor_ret.recs :
                   advisor_ret.recs[j].ticker # research_results[i].ticker

(***************************************************************************)
(* C6: in a sequential run, once the remaining budget is 0 every later     *)
(* opportunity is sized to (0, 0) without an error and the remaining       *)
(* budget stays 0.                                                         *)
(***************************************************************************)
C6_ExhaustionAbsorbing ==
    [][(entry = "kelly_seq" /\ budget_remaining = 0)
       => /\ budget_remaining' = 0
          /\ kelly_ret'.kind = "ok" /\ kelly_ret'.count = 0 /\ kelly_ret'.spend = 0]_vars

C6_Witness ==
    /\ entry = "kelly_seq" /\ budget_cents > 0 /\ spent = budget_cents
    /\ kelly_args.daily_limit_remaining = 0
    /\ ~NoEdge(kelly_args.ai_probability, kelly_args.market_price_cents)
    /\ kelly_ret = KellyRet("ok", 0, 0) /\ budget_remaining = 0

(***************************************************************************)
(* C7: with the price, the budget and every other opportunity fixed,       *)
(* raising one opportunity's estimate never lowers what it is given:       *)
(* its contract count under Kelly, its share under the proportional        *)
(* policy.                                                                 *)
(***************************************************************************)
C7_MonotoneInEstimate ==
    /\ (Called /\ ValidPrice(kelly_args.market_price_cents))
       => \A p \in {q \in CallProbs : ValidProb(q) /\ q >= kelly_args.ai_probability} :
             kelly_ret.count <= calculate_kelly_bet(p, kelly_args.market_price_cents, kelly_args.bankroll, kelly_args.daily_limit_remaining).count
    /\ (/\ entry = "proportional" /\ Advised
        /\ total_daily_budget >= 0 /\ ValidBatch(research_results))
       => \A i \in DOMAIN research_results :
             \A p \in {q \in PropProbs : ValidProb(q) /\ q >= research_results[i].my_estimated_probability} :
                ShareOf(research_results, total_daily_budget, i)
                  <= ShareOf(WithProb(research_results, i, p), total_daily_budget, i)

C9_FailFast ==
    /\ (/\ Called
        /\ \/ kelly_args.daily_limit_remaining < 0
           \/ kelly_args.market_price_cents < 0
           \/ ~ValidProb(kelly_args.ai_probability))
       => kelly_ret.kind = "raised"
    /\ (/\ entry = "proportional" /\ Advised
        /\ \/ total_daily_budget < 0
           \/ \E i \in DOMAIN research_results :
                 \/ research_results[i].yes_price < 0
                 \/ ~ValidProb(research_results[i].my_estimated_probability))
       => advisor_ret.kind = "raised"

(***************************************************************************)
(* C5: for valid inputs (price in 1..99, estimate in [0, 1], budget >= 0)  *)
(* every allocation is non-negative: the count and spend of                *)
(* calculate_kelly_bet, the suggested_bet of get_advisor_recommendations,  *)
(* and the suggested_bet of every order mainv2.run_advisor_bot builds.     *)
(***************************************************************************)
ValidPicks(picks) ==
    \A i \in DOMAIN picks :
        /\ ValidPrice(picks[i].market_price)
        /\ ValidProb(picks[i].estimated_real_prob)

C5_NonNegative ==
    /\ (/\ Called
        /\ ValidPrice(kelly_args.market_price_cents)
        /\ ValidProb(kelly_args.ai_probability)
        /\ kelly_args.bankroll >= 0 /\ kelly_args.daily_limit_remaining >= 0)
       => kelly_ret.count >= 0 /\ kelly_ret.spend >= 0
    /\ (/\ entry = "proportional" /\ Advised
        /\ total_daily_budget >= 0 /\ ValidBatch(research_results))
       => \A j \in DOMAIN advisor_ret.recs : advisor_ret.recs[j].suggested_bet >= 0
    /\ (/\ entry = "mainv2" /\ run_pc = "returned"
        /\ bot_context.budget >= 0 /\ ValidPicks(bot_context.raw_picks))
       => \A j \in DOMAIN bot_context.final_orders :
             bot_context.final_orders[j].suggested_bet >= 0

(***************************************************************************)
(* C10: with no opportunity or a budget of 0 the allocation entry points   *)
(* do not raise and return an empty or all-zero result:                    *)
(* get_advisor_recommendations a list whose recommendations all suggest 0, *)
(* calculate_kelly_bet (0, 0), and the advisor step of                     *)
(* main.run_advisor_bot ends without an error, its final_orders empty or   *)
(* all zero.                                                               *)
(***************************************************************************)
C10_DegenerateNoOp ==
    /\ (/\ entry = "proportional" /\ Advised
        /\ (research_results = << >> \/ total_daily_budget = 0))
       => /\ advisor_ret.kind = "list"
          /\ \A j \in DOMAIN advisor_ret.recs : advisor_ret.recs[j].suggested_bet = 0
    /\ (/\ Called /\ kelly_args.daily_limit_remaining = 0
        /\ ValidPrice(kelly_args.market_price_cents))
       => kelly_ret = KellyRet("ok", 0, 0)
    /\ (/\ entry = "main" /\ run_pc = "returned" /\ run_exit # "scout_failure"
        /\ (bot_context.raw_picks = << >> \/ bot_context.budget = 0))
       => /\ run_exit # "advisor_error"
          /\ \A j \in DOMAIN bot_context.final_orders :
                bot_context.final_orders[j].suggested_bet = 0

(***************************************************************************)
(* C11: when no research result survives the filter (the batch is empty,   *)
(* or every result is a PASS or has an edge of at most 0.05)               *)
(* get_advisor_recommendations returns an empty list: a value of the list  *)
(* type of its non-empty result, with no element.                          *)
(***************************************************************************)
C11_EmptyListWhenNoSurvivor ==
    (/\ entry = "proportional" /\ Advised /\ total_daily_budget >= 0
     /\ \A i \in DOMAIN research_results : ~IsActive(research_results[i]))
    => advisor_ret = AdvisorRet("list", << >>)

(***************************************************************************)
(* C12: a call of the sizing functions leaves what it was given as it was: *)
(* get_advisor_recommendations changes no record of research_results and   *)
(* not the budget, and sizing with calculate_kelly_bet leaves the bankroll *)
(* as it was.                                                              *)
(***************************************************************************)
C12_InputsUnchanged ==
    [][/\ (entry = "proportional" /\ total_daily_budget >= 0
           /\ ValidBatch(research_results))
          => /\ research_results' = research_results
             /\ total_daily_budget' = total_daily_budget
       /\ (entry \in {"kelly_call", "kelly_seq"}) => bankroll' = bankroll]_vars

StakeDen(a) == 4 * (100 - a.market_price_cents)

StakeNum(a) ==
    LET raw == a.bankroll * (a.ai_probability - a.market_price_cents)
        cap == a.daily_limit_remaining * StakeDen(a)
    IN  IF raw < cap THEN raw ELSE cap

ValidCall(a) ==
    /\ ValidPrice(a.market_price_cents) /\ ValidProb(a.ai_probability)
    /\ a.bankroll >= 0 /\ a.daily_limit_remaining >= 0

(***************************************************************************)
(* C14: for a valid call past the edge gate whose stake                    *)
(* min(bankroll * 0.25 * (p - mp) / (1 - mp), limit) is at least the       *)
(* minimum ticket, calculate_kelly_bet returns the whole contracts of that *)
(* stake (one fewer at most, and only when the stake is a whole multiple   *)
(* of the price) and their cost; price 60, estimate 0.75, bankroll and     *)
(* limit 100000 cents give 156 contracts and 9360 cents.                   *)
(***************************************************************************)
C14_KellyFormula ==
    LET a == kelly_args
        c == a.market_price_cents
        k == StakeNum(a) \div (StakeDen(a) * c)
    IN  /\ (/\ Called /\ ValidCall(a)
            /\ a.ai_probability > c + MinEdge
            /\ StakeNum(a) >= 100 * StakeDen(a))
           => /\ kelly_ret.kind = "ok"
              /\ \/ kelly_ret.count = k
                 \/ /\ kelly_ret.count = k - 1
                    /\ StakeNum(a) % (StakeDen(a) * c) = 0
              /\ kelly_ret.spend = kelly_ret.count * c
        /\ (Called /\ a = KellyArgs(75, 60, 100000, 100000))
           => kelly_ret = KellyRet("ok", 156, 9360)

C14_Witness ==
    /\ kelly_args = KellyArgs(75, 60, 100000, 100000)
    /\ kelly_ret = KellyRet("ok", 156, 9360)

(***************************************************************************)
(* C16: whenever calculate_kelly_bet returns a non-zero result for a valid *)
(* call, the count is the largest number of whole contracts the bet pays   *)
(* for, count * price <= bet < (count + 1) * price, and the spend is       *)
(* count * price.                                                          *)
(***************************************************************************)
C16_LargestAffordableCount ==
    LET a == kelly_args
        c == a.market_price_cents
    IN  (Called /\ ValidCall(a) /\ kelly_ret.count # 0)
        => /\ kelly_ret.count * c * StakeDen(a) <= StakeNum(a)
           /\ StakeNum(a) < (kelly_ret.count + 1) * c * StakeDen(a)
           /\ kelly_ret.spend = kelly_ret.count * c

(***************************************************************************)
(* C17: whenever the clamped bet of a call past the edge gate is below the *)
(* minimum ticket of 100 cents, calculate_kelly_bet returns (0, 0); so a   *)
(* non-zero count comes from a bet of at least 100 cents, whatever the     *)
(* bankroll and the remaining limit.                                       *)
(***************************************************************************)
C17_MinimumTicket ==
    LET a == kelly_args
    IN  /\ (/\ Called /\ a.market_price_cents < 100
            /\ ~NoEdge(a.ai_probability, a.market_price_cents)
            /\ StakeNum(a) < 100 * StakeDen(a))
           => kelly_ret = KellyRet("ok", 0, 0)
        /\ (Called /\ a.market_price_cents < 100 /\ kelly_ret.count # 0)
           => StakeNum(a) >= 100 * StakeDen(a)

\* a bet of exactly the minimum ticket is sized
C17_Witness ==
    /\ Called /\ ValidCall(kelly_args)
    /\ StakeNum(kelly_args) = 100 * StakeDen(kelly_args)
    /\ kelly_ret.count > 0

(***************************************************************************)
(* C15: under the proportional policy each survivor's share is             *)
(* round(budget * edge_score / total_edge), floored to whole contracts at  *)
(* its own price: what it is given is floor(share / price) * price         *)
(* (checked on batches whose estimates are not below their prices).        *)
(***************************************************************************)
C15_ShareFlooredToContracts ==
    (/\ entry = "proportional" /\ advisor_ret.kind = "list"
     /\ total_daily_budget >= 0 /\ ValidBatch(research_results)
     /\ \A i \in DOMAIN research_results :
           research_results[i].my_estimated_probability >= research_results[i].yes_price)
    => LET active == ActiveOpportunities(research_results)
           total == TotalEdgePoints(active)
       IN  \A j \in DOMAIN advisor_ret.recs :
              \E up \in BOOLEAN :
                 LET share == RoundNearest(total_daily_budget * active[j].edge_score, total, up)
                     count == share \div active[j].yes_price
                 IN  advisor_ret.recs[j].suggested_bet
                        = 100 * count * active[j].yes_price

(***************************************************************************)
(* C19: the recommendations of get_advisor_recommendations are the         *)
(* survivors of the filter in the order of the input: one recommendation   *)
(* per survivor, none twice, none moved.                                   *)
(***************************************************************************)
RECURSIVE SurvivorTickers(_)
SurvivorTickers(results) ==
    IF results = << >> THEN << >>
    ELSE (IF IsActive(Head(results)) THEN << Head(results).ticker >> ELSE << >>)
         \o SurvivorTickers(Tail(results))

C19_OrderPreserved ==
    (entry = "proportional" /\ Advised)
    => [j \in DOMAIN advisor_ret.recs |-> advisor_ret.recs[j].ticker]
          = SurvivorTickers(research_results)

\* two survivors with a dropped result between them, the smaller edge first
C19_Witness ==
    /\ entry = "proportional" /\ advisor_ret.kind = "list"
    /\ Len(research_results) = 3 /\ Len(advisor_ret.recs) = 2
    /\ IsActive(research_results[1]) /\ ~IsActive(research_results[2])
    /\ IsActive(research_results[3])
    /\ Edge(research_results[1]) < Edge(research_results[3])
    /\ advisor_ret.recs[1].ticker = research_results[1].ticker
    /\ advisor_ret.recs[2].ticker = research_results[3].ticker
    /\ research_results[1].ticker # research_results[3].ticker

(***************************************************************************)
(* C18: research_event_group keeps a market in its prompt exactly when its *)
(* yes_ask is present and within 1..99, both ends included: a market at 1  *)
(* or at 99 cents is kept, one at 0, without a yes_ask, or at 100 is       *)
(* dropped; and a kept market at 1 or 99 can still get no contracts from   *)
(* the edge gate of calculate_kelly_bet.                                   *)
(***************************************************************************)
Researched == research_ret # NoResearch /\ market_list # << >>

InContext(m) == \E i \in DOMAIN context_text : context_text[i] = m

C18_BoundsInclusive ==
    (entry = "research" /\ Researched)
    => /\ context_text
            = SelectSeq(market_list,
                        LAMBDA m : m.has_yes_ask /\ m.yes_ask >= 1 /\ m.yes_ask <= 99)
       /\ \A i \in DOMAIN market_list :
             LET m == market_list[i]
             IN  /\ (m.has_yes_ask /\ m.yes_ask \in {1, 99}) => InContext(m)
                 /\ (~m.has_yes_ask \/ m.yes_ask = 0 \/ m.yes_ask >= 100) => ~InContext(m)
       /\ \A i \in DOMAIN context_text :
             context_text[i].yes_ask \in {1, 99}
             => \E p \in 0..100 :
                   calculate_kelly_bet(p, context_text[i].yes_ask, 100000, 100000)
                      = KellyRet("ok", 0, 0)

\* markets at 1 and at 99 kept, and one at 0, at 100 or without a price dropped
C18_Witness ==
    /\ entry = "research" /\ Researched
    /\ Len(market_list) = 3 /\ Len(context_text) = 2
    /\ InContext(Market(TRUE, 1)) /\ InContext(Market(TRUE, 99))

(***************************************************************************)
(* C20: in mainv2.run_advisor_bot no step changes the budget of the        *)
(* context, and on every path on which the runner returns (scout failure,  *)
(* no picks, orders built) the context it returns has the keys budget,     *)
(* raw_picks and final_orders, its budget being the configured one.        *)
(***************************************************************************)
C20_BudgetReadOnly ==
    /\ [](entry = "mainv2"
          => /\ DOMAIN bot_context = {"budget", "raw_picks", "final_orders"}
             /\ bot_context.budget \in RunnerBudgets)
    /\ [][entry = "mainv2" => bot_context'.budget = bot_context.budget]_vars

\* the runner has returned with orders built from its picks
C20_Witness ==
    /\ entry = "mainv2" /\ run_pc = "returned" /\ run_exit = "completed"
    /\ bot_context.budget = 1000
    /\ bot_context.raw_picks # << >>
    /\ Len(bot_context.final_orders) = Len(bot_context.raw_picks)

(***************************************************************************)
(* C23: when mainv2.run_advisor_bot returns with picks, final_orders holds *)
(* one order per raw pick, by confidence descending, and orders of equal   *)
(* confidence stand in the order in which their picks were collected.      *)
(***************************************************************************)
C23_OrdersSortedStable ==
    (/\ entry = "mainv2" /\ run_pc = "returned" /\ run_exit = "completed"
     /\ bot_context.raw_picks # << >>)
    => LET picks == bot_context.raw_picks
           orders == bot_context.final_orders
           n == Len(picks)
       IN  /\ Len(orders) = n
           /\ \E f \in [1..n -> 1..n] :
                 /\ \A i, j \in 1..n : f[i] = f[j] => i = j
                 /\ \A i \in 1..n : orders[i] = FormatOrder(picks[f[i]])
                 /\ \A i, j \in 1..n :
                       i < j
                       => \/ orders[i].confidence > orders[j].confidence
                          \/ /\ orders[i].confidence = orders[j].confidence
                             /\ f[i] < f[j]

\* two picks of equal confidence from two categories, kept in their order
C23_Witness ==
    /\ entry = "mainv2" /\ run_pc = "returned"
    /\ Len(bot_context.raw_picks) = 2 /\ Len(bot_context.final_orders) = 2
    /\ bot_context.raw_picks[1].category # bot_context.raw_picks[2].category
    /\ bot_context.raw_picks[1].ticker # bot_context.raw_picks[2].ticker
    /\ bot_context.raw_picks[1].confidence_score = bot_context.raw_picks[2].confidence_score
    /\ bot_context.final_orders[1].ticker = bot_context.raw_picks[1].ticker
    /\ bot_context.final_orders[2].ticker = bot_context.raw_picks[2].ticker

C24_WitnessFailure ==
    /\ entry = "research" /\ research_ret.path \in AiFailures
    /\ research_ret = ResearchRet("list", research_ret.path, << >>)

(***************************************************************************)
(* C25: in the research loop of both runners every step, whether the       *)
(* category is skipped, yields picks, yields nothing or raises, moves on   *)
(* to the next category and leaves raw_picks as it was or extends it at    *)
(* the end by picks of the category just researched; the loop is left      *)
(* only after the last category, so raw_picks ends as the concatenation,   *)
(* in iteration order, of the picks of the categories that gave some.      *)
(***************************************************************************)
InResearchLoop ==
    entry \in {"mainv2", "main"} /\ run_pc = "research"
    /\ cat_idx <= Len(market_data)

ExtendsBy(old, new, cat) ==
    /\ Len(new) >= Len(old)
    /\ SubSeq(new, 1, Len(old)) = old
    /\ \A i \in (Len(old) + 1)..Len(new) : new[i].category = cat

C25_FailureIsolation ==
    /\ [][InResearchLoop
            => /\ run_pc' = "research" /\ cat_idx' = cat_idx + 1
               /\ market_data' = market_data
               /\ ExtendsBy(bot_context.raw_picks, bot_context'.raw_picks,
                            market_data[cat_idx].category)]_vars
    /\ [][(entry \in {"mainv2", "main"} /\ run_pc = "research"
           /\ run_pc' = "returned")
            => /\ cat_idx = Len(market_data) + 1
               /\ bot_context'.raw_picks = bot_context.raw_picks]_vars

\* the first category gave a pick, the second was researched and gave
\* nothing, and the pick of the first is still there
C25_Witness ==
    /\ entry = "mainv2" /\ run_pc = "returned" /\ run_exit = "completed"
    /\ Len(market_data) = 2 /\ cat_idx = 3
    /\ market_data[1].events # << >> /\ market_data[2].events # << >>
    /\ Len(bot_context.raw_picks) = 1
    /\ bot_context.raw_picks[1].category = market_data[1].category

(***************************************************************************)
(* C27: in main.run_advisor_bot, when at least one pick was collected the  *)
(* advisor step's call of get_advisor_recommendations succeeds, its list   *)
(* of recommendations becomes bot_context['final_orders'], and the run     *)
(* ends in the final strategy report.                                      *)
(***************************************************************************)
C27_AdvisorStepReports ==
    (/\ entry = "main" /\ run_pc = "returned"
     /\ bot_context.raw_picks # << >>)
    => /\ run_exit = "report"
       /\ MainAdvisorCall(bot_context.raw_picks, bot_context.budget).kind = "list"
       /\ bot_context.final_orders =
             MainAdvisorCall(bot_context.raw_picks, bot_context.budget).recs

(***************************************************************************)
(* C21: in fetch_current_kalshi_markets, after any pages and events, every *)
(* key of categorized_markets holds at most max_per_category markets, and  *)
(* every market collected carries the category of its event, which is its  *)
(* key and equals, lower case, one of the requested categories lower case. *)
(* The dict returned is held to the same.                                  *)
(***************************************************************************)
CappedAndRequested(cm) ==
    \A i \in DOMAIN cm :
        /\ Len(cm[i].markets) <= max_per_category
        /\ \A k \in DOMAIN cm[i].markets :
              /\ cm[i].markets[k].category = cm[i].key
              /\ \E t \in DOMAIN target_categories :
                    Lower(cm[i].markets[k].category) = Lower(target_categories[t])

C21_PerCategoryCap ==
    entry = "scout"
    => /\ CappedAndRequested(categorized_markets)
       /\ scout_ret.kind = "dict" => CappedAndRequested(scout_ret.value)

\* two pages were read, two keys that differ only in case are both at the
\* limit, and the dict was returned
C21_Witness ==
    /\ entry = "scout" /\ scout_pc = "returned" /\ page_count = 2
    /\ max_per_category >= 1
    /\ \E i, j \in DOMAIN scout_ret.value :
          /\ i # j
          /\ Lower(scout_ret.value[i].key) = Lower(scout_ret.value[j].key)
          /\ Len(scout_ret.value[i].markets) = max_per_category
          /\ Len(scout_ret.value[j].markets) = max_per_category

(***************************************************************************)
(* C26: the pagination loop of fetch_current_kalshi_markets ends, and the  *)
(* function returns, whenever a response is not 200, has no events, has no *)
(* cursor or raises, or all requested categories are full after a page; on *)
(* each of these exits what is returned is the dict as collected so far.   *)
(* With max_per_category >= 1, while a requested category has no key in    *)
(* the dict, all_full is false and the loop goes on after a page exactly   *)
(* when the response had a cursor.                                         *)
(***************************************************************************)
Responding(kinds) ==
    entry = "scout" /\ scout_pc = "respond" /\ response.kind \in kinds

LastResponse ==
    \/ Responding({"non200", "no_events", "raises"})
    \/ Responding({"page"}) /\ response.cursor = NoCursor

SomeCategoryAbsent(cm) ==
    \E t \in DOMAIN target_categories :
        \A i \in DOMAIN cm : Lower(cm[i].key) # Lower(target_categories[t])

C26_WitnessAllFull ==
    /\ entry = "scout" /\ scout_pc = "returned"
    /\ max_per_category >= 1
    /\ response = Response("page", "next")
    /\ scout_ret.value # << >>

\* the second request raised and the first page's markets were returned
C26_WitnessRaised ==
    /\ entry = "scout" /\ scout_pc = "returned" /\ page_count = 1
    /\ response.kind = "raises" /\ ~has_more_pages
    /\ scout_ret.value # << >> /\ scout_ret.value[1].markets # << >>

(***************************************************************************)
(* C22: get_daily_markets, for max_markets >= 0, returns at most           *)
(* max_markets markets, in ascending order of expiration, each expiring    *)
(* after now and at most 24 hours from now; they are taken from the        *)
(* candidates of all the pages read, one candidate each, as many as        *)
(* max_markets allows, and no candidate left out expires sooner than one   *)
(* returned.  A page only adds candidates after those of earlier pages.    *)
(***************************************************************************)
SoonestOf(ret, candidates) ==
    \E f \in [DOMAIN ret -> DOMAIN candidates] :
        /\ \A i, j \in DOMAIN ret : f[i] = f[j] => i = j
        /\ \A i \in DOMAIN ret : ret[i] = candidates[f[i]]
        /\ \A k \in DOMAIN candidates :
              (\A i \in DOMAIN ret : f[i] # k)
              => \A i \in DOMAIN ret : ret[i].expiration <= candidates[k].expiration

C22_DailySoonest ==
    /\ [][(entry = "daily" /\ scout_pc = "report" /\ max_markets >= 0)
            => LET ret == scout_ret'.value
               IN  /\ scout_pc' = "returned" /\ scout_ret'.kind = "list"
                   /\ Len(ret) <= max_markets
                   /\ Len(ret) = max_markets \/ Len(ret) = Len(daily_candidates)
                   /\ \A i, j \in DOMAIN ret :
                         i < j => ret[i].expiration <= ret[j].expiration
                   /\ \A i \in DOMAIN ret :
                         0 < ret[i].expiration /\ ret[i].expiration <= DayHours
                   /\ SoonestOf(ret, daily_candidates)]_vars
    /\ [][(entry = "daily" /\ scout_pc = "respond")
            => /\ Len(daily_candidates') >= Len(daily_candidates)
               /\ SubSeq(daily_candidates', 1, Len(daily_candidates))
                     = daily_candidates]_vars

\* three candidates, which takes two pages, of which the one returned is
\* the soonest and the latest is left out
C22_Witness ==
    /\ entry = "daily" /\ scout_pc = "returned" /\ page_count = 2
    /\ max_markets = 1 /\ Len(daily_candidates) = 3
    /\ Len(scout_ret.value) = 1 /\ scout_ret.value[1].expiration = 1
    /\ daily_candidates[3].expiration = DayHours

====
